---- MODULE Spec2Model ----
(***************************************************************************)
(* A model of the glutin window layer of the GL backend                    *)
(* (src/backend/gl/src/window/glutin.rs): Surface, Headless, Swapchain,    *)
(* config_context and get_window_extent.                                   *)
(*                                                                         *)
(* Conventions.                                                            *)
(*   - An Option<T> is a sequence of length at most one: <<>> is None and  *)
(*     <<x>> is Some(x).                                                   *)
(*   - What a call yields is a record with a field kind: "ok" (the value   *)
(*     returned, in val) or "panic" (a Rust panic, in cond).  A third      *)
(*     kind, "fail" (a failure condition, in cond), is what the properties *)
(*     speak of; no operation of this file yields it.                      *)
(*   - A window is [w, h, num, den]: the logical inner size w x h and the  *)
(*     hidpi factor num/den.  The sizes and factors drawn are exactly      *)
(*     representable in f64 and so are their products, so the rational     *)
(*     arithmetic below is the f64 arithmetic of the code.                 *)
(***************************************************************************)
EXTENDS Integers, Sequences, FiniteSets

VARIABLES
    pc,              \* "builder" | "configured" | "live": how far construction got
    builder,         \* the glutin::ContextBuilder's pixel-format requirements
    cfg,             \* Option of the (color_format, ds_format) given to config_context
    instance,        \* "Surface" (windowed context) or "Headless"
    pixel_format,    \* context.get_pixel_format()
    window,          \* context.window(): logical inner size and hidpi factor
    lost,            \* the driver has reported the native context lost
    proc_ok,         \* context.get_proc_address resolves the primary entry point
    null_call_panics,\* the build's callees panic on an entry point that is null
    overflow_checks, \* the build's overflow-checks setting (debug: on, release: off)
    swapchain,       \* Option of the Swapchain's own fields: extent and fbos
    signaled,        \* the semaphores and fences that have been signalled
    ret,             \* the last call: its name, arguments, and what it yielded
    ncalls           \* the number of calls made so far

vars == <<pc, builder, cfg, instance, pixel_format, window, lost, proc_ok,
          null_call_panics,
          overflow_checks, swapchain, signaled, ret, ncalls>>

----------------------------------------------------------------------------
(* Bounds and program constants *)

\* How many calls a behaviour makes.
MaxCalls == 3

\* image::Size is u32.
SizeBits == 32

\* TLC's integers are 32-bit signed, so a u32 is held as two 16-bit limbs,
\* <<low, high>>, and a wider intermediate value as three, lowest first.
Base == 2^(SizeBits \div 2)

\* The u32 of a number small enough to write down.
U32(n) == <<n % Base, n \div Base>>

SizeMax == <<Base - 1, Base - 1>>

\* x * k for a u32 x and a small k: three limbs.
MulSmall(x, k) ==
    LET p1 == x[1] * k
        p2 == x[2] * k + p1 \div Base
    IN  <<p1 % Base, p2 % Base, p2 \div Base>>

\* x div d for a three-limb x and a small d: three limbs, the remainder dropped.
DivSmall(x, d) ==
    LET q3 == x[3] \div d
        r3 == x[3] % d
        q2 == (r3 * Base + x[2]) \div d
        r2 == (r3 * Base + x[2]) % d
        q1 == (r2 * Base + x[1]) \div d
    IN  <<q1, q2, q3>>

\* x + k for a u32 x and a small k: three limbs.
AddSmall(x, k) ==
    LET s1 == x[1] + k
        s2 == x[2] + s1 \div Base
    IN  <<s1 % Base, s2 % Base, s2 \div Base>>

None == <<>>

Some(x) == <<x>>

Ok(v) == [kind |-> "ok", val |-> v]

Failed(c) == [kind |-> "fail", cond |-> c]

Panic(c) == [kind |-> "panic", cond |-> c]

unwrap_or(opt, d) == IF opt = None THEN d ELSE opt[1]

Range(s) == {s[i] : i \in DOMAIN s}

----------------------------------------------------------------------------
(* hal::format: the part of the format tables config_context reads *)

ColorFormats ==
    {"Rgba8Unorm", "Rgba8Srgb", "Bgra8Unorm", "Bgra8Srgb", "Rgba8Snorm",
     "R5g6b5Unorm"}

DepthStencilFormats == {"D16Unorm", "D24UnormS8Uint"}

\* Format::base_format: the surface type and the channel type of a format.
base_format(fmt) ==
    CASE fmt = "Rgba8Unorm"     -> <<"R8_G8_B8_A8", "Unorm">>
      [] fmt = "Rgba8Srgb"      -> <<"R8_G8_B8_A8", "Srgb">>
      [] fmt = "Rgba8Snorm"     -> <<"R8_G8_B8_A8", "Snorm">>
      [] fmt = "Bgra8Unorm"     -> <<"B8_G8_R8_A8", "Unorm">>
      [] fmt = "Bgra8Srgb"      -> <<"B8_G8_R8_A8", "Srgb">>
      [] fmt = "R5g6b5Unorm"    -> <<"R5_G6_B5", "Unorm">>
      [] fmt = "D16Unorm"       -> <<"D16", "Unorm">>
      [] fmt = "D24UnormS8Uint" -> <<"D24_S8", "Unorm">>

\* SurfaceType::describe_bits: the bit counts of a surface type.
describe_bits(surface) ==
    CASE surface = "R8_G8_B8_A8" -> [color |-> 24, alpha |-> 8, depth |-> 0,  stencil |-> 0]
      [] surface = "B8_G8_R8_A8" -> [color |-> 24, alpha |-> 8, depth |-> 0,  stencil |-> 0]
      [] surface = "R5_G6_B5"    -> [color |-> 16, alpha |-> 0, depth |-> 0,  stencil |-> 0]
      [] surface = "D16"         -> [color |-> 0,  alpha |-> 0, depth |-> 16, stencil |-> 0]
      [] surface = "D24_S8"      -> [color |-> 0,  alpha |-> 0, depth |-> 24, stencil |-> 8]

BITS_ZERO == [color |-> 0, alpha |-> 0, depth |-> 0, stencil |-> 0]

----------------------------------------------------------------------------
(* get_window_extent *)

\* f64 as u32, for a value that is n / d (n of three limbs): the fraction is
\* dropped and a value above the type's largest is clamped to it.
as_size(n, d) ==
    LET t == DivSmall(n, d)
    IN  IF t[3] > 0 THEN SizeMax ELSE <<t[1], t[2]>>

\* inner_size().to_physical(hidpi_factor()), each dimension cast to image::Size.
get_window_extent(win) ==
    [width  |-> as_size(MulSmall(win.w, win.num), win.den),
     height |-> as_size(MulSmall(win.h, win.num), win.den),
     depth  |-> 1]

\* Extent2D::from(image::Extent)
Extent2D(ex) == [width |-> ex.width, height |-> ex.height]

\* u32 + u32: a panic when the build checks overflow, a wrap when it does not.
Overflows(a, b) == AddSmall(a, b)[3] > 0

WrapAdd(a, b) == LET t == AddSmall(a, b) IN <<t[1], t[2]>>

----------------------------------------------------------------------------
(* The objects, as the state holds them *)

\* The shared glutin context, as far as this layer reads it.
Context == [pixel_format |-> pixel_format, window |-> window]

\* Surface { context }
Surface == [context |-> Context]

\* Headless(context)
Headless == [context |-> Context]

\* Swapchain { context, extent, fbos }
Swapchain == [context |-> Context, extent |-> swapchain[1].extent, fbos |-> swapchain[1].fbos]

----------------------------------------------------------------------------
(* impl hal::Swapchain for Swapchain *)

\* acquire_image that honours a timeout of zero by giving up.
acquire_image_honours_timeout(self, timeout_ns, semaphore, fence) ==
    IF timeout_ns = 0
    THEN Failed("Timeout")
    ELSE Ok([index |-> 0, suboptimal |-> None])

acquire_image(self, timeout_ns, semaphore, fence) ==
    Ok([index |-> 0, suboptimal |-> None])

----------------------------------------------------------------------------
(* impl Surface, impl hal::Surface for Surface *)

\* swapchain_formats that forgets to match the alpha bits.
swapchain_formats_ignores_alpha(self) ==
    LET pf == self.context.pixel_format
    IN  CASE pf.color_bits = 24 /\ pf.srgb  -> <<"Rgba8Srgb", "Bgra8Srgb">>
          [] pf.color_bits = 24 /\ ~pf.srgb -> <<"Rgba8Unorm", "Bgra8Unorm">>
          [] OTHER -> <<>>

swapchain_formats(self) ==
    LET pf         == self.context.pixel_format
        color_bits == pf.color_bits
        alpha_bits == pf.alpha_bits
        srgb       == pf.srgb
    IN  CASE color_bits = 24 /\ alpha_bits = 8 /\ srgb  -> <<"Rgba8Srgb", "Bgra8Srgb">>
          [] color_bits = 24 /\ alpha_bits = 8 /\ ~srgb -> <<"Rgba8Unorm", "Bgra8Unorm">>
          [] OTHER -> <<>>

\* multisampling is a u16 and image::NumSamples a u8: `samples as _` keeps the low byte.
kind(self) ==
    LET ex      == get_window_extent(self.context.window)
        samples == unwrap_or(self.context.pixel_format.multisampling, 1)
    IN  Ok([dim |-> "D2", width |-> ex.width, height |-> ex.height, layers |-> 1,
            samples |-> samples % 256])

compatibility(self) ==
    LET ex     == get_window_extent(self.context.window)
        extent == Extent2D(ex)
    IN  IF overflow_checks /\ (Overflows(ex.width, 1) \/ Overflows(ex.height, 1))
        THEN Panic("attempt to add with overflow")
        ELSE Ok([caps |->
                    [image_count |->
                        IF self.context.pixel_format.double_buffer
                        THEN [start |-> 2, end |-> 3]
                        ELSE [start |-> 1, end |-> 2],
                     current_extent |-> Some(extent),
                     extents |-> [start |-> extent,
                                  end   |-> [width  |-> WrapAdd(ex.width, 1),
                                             height |-> WrapAdd(ex.height, 1)]],
                     max_image_layers |-> 1,
                     usage |-> {"COLOR_ATTACHMENT", "TRANSFER_SRC"},
                     composite_alpha |-> {"OPAQUE"}],
                 formats |-> Some(swapchain_formats(self)),
                 present_modes |-> <<"Fifo">>])

supports_queue_family(self) == Ok(TRUE)

----------------------------------------------------------------------------
(* impl hal::Instance for Surface, impl hal::Instance for Headless *)

\* The closure |s| self.context.get_proc_address(s): the address of the entry
\* point, or null when the context does not resolve it.
get_proc_address(self) == IF proc_ok THEN "address" ELSE "null"

\* GlContainer::from_fn_proc: a container of the entry points the resolver gave.
\* It returns the container itself, whatever the resolver gave.
from_fn_proc(resolver) == [entry |-> resolver]

\* PhysicalDevice::new_adapter: an adapter over the container.  It returns the
\* adapter itself; with an entry point that is null it either passes the
\* container on or panics when it calls through it, as the build has it.
new_adapter(gl) ==
    IF gl.entry = "null" /\ null_call_panics
    THEN Panic("GL entry point not loaded")
    ELSE Ok([physical_device |-> "gl", gl |-> gl])

\* vec![adapter]; a panic in new_adapter unwinds through the caller.
Surface_enumerate_adapters(self) ==
    LET adapter == new_adapter(from_fn_proc(get_proc_address(self)))
    IN  IF adapter.kind = "panic" THEN adapter ELSE Ok(<<adapter.val>>)

\* enumerate_adapters that drops the adapter it built.
Headless_enumerate_adapters_drops(self) ==
    LET adapter == new_adapter(from_fn_proc(get_proc_address(self)))
    IN  IF adapter.kind = "panic" THEN adapter ELSE Ok(<<>>)

\* vec![adapter]; a panic in new_adapter unwinds through the caller.
Headless_enumerate_adapters(self) ==
    LET adapter == new_adapter(from_fn_proc(get_proc_address(self)))
    IN  IF adapter.kind = "panic" THEN adapter ELSE Ok(<<adapter.val>>)

----------------------------------------------------------------------------
(* config_context *)

\* config_context that asks for sRGB whatever the channel type.
config_context_always_srgb(b, color_format, ds_format) ==
    LET color_base == base_format(color_format)
        color_bits == describe_bits(color_base[1])
        depth_bits == IF ds_format # None
                      THEN describe_bits(base_format(ds_format[1])[1])
                      ELSE BITS_ZERO
    IN  [b EXCEPT !.depth_bits   = Some(depth_bits.depth),
                  !.stencil_bits = Some(depth_bits.stencil),
                  !.color_bits   = Some(color_bits.color),
                  !.alpha_bits   = Some(color_bits.alpha),
                  !.srgb         = TRUE]

\* config_context that keeps the builder's depth and stencil bits when no
\* depth/stencil format is given.
config_context_keeps_depth(b, color_format, ds_format) ==
    LET color_base == base_format(color_format)
        color_bits == describe_bits(color_base[1])
    IN  IF ds_format # None
        THEN LET depth_bits == describe_bits(base_format(ds_format[1])[1])
             IN  [b EXCEPT !.depth_bits   = Some(depth_bits.depth),
                           !.stencil_bits = Some(depth_bits.stencil),
                           !.color_bits   = Some(color_bits.color),
                           !.alpha_bits   = Some(color_bits.alpha),
                           !.srgb         = (color_base[2] = "Srgb")]
        ELSE [b EXCEPT !.color_bits   = Some(color_bits.color),
                       !.alpha_bits   = Some(color_bits.alpha),
                       !.srgb         = (color_base[2] = "Srgb")]

config_context(b, color_format, ds_format) ==
    LET color_base == base_format(color_format)
        color_bits == describe_bits(color_base[1])
        depth_bits == IF ds_format # None
                      THEN describe_bits(base_format(ds_format[1])[1])
                      ELSE BITS_ZERO
    IN  [b EXCEPT !.depth_bits   = Some(depth_bits.depth),
                  !.stencil_bits = Some(depth_bits.stencil),
                  !.color_bits   = Some(color_bits.color),
                  !.alpha_bits   = Some(color_bits.alpha),
                  !.srgb         = (color_base[2] = "Srgb")]

----------------------------------------------------------------------------
(* The inputs drawn *)

\* The window as created, 800 x 600 logical pixels at scale 1.
InitialWindow == [w |-> U32(800), h |-> U32(600), num |-> 1, den |-> 1]

\* Windows the windowing system may report after a resize or a move to another
\* display: whole and fractional physical sizes, and the largest width and height
\* the size type holds.
Windows ==
    {[w |-> U32(800), h |-> U32(600), num |-> 1, den |-> 1],
     [w |-> U32(800), h |-> U32(600), num |-> 3, den |-> 2],
     [w |-> U32(801), h |-> U32(601), num |-> 1, den |-> 1],
     [w |-> U32(801), h |-> U32(601), num |-> 3, den |-> 2],
     [w |-> SizeMax,  h |-> U32(600), num |-> 1, den |-> 1],
     [w |-> U32(800), h |-> SizeMax,  num |-> 1, den |-> 1]}

\* A headless context has no window; it is built with size 0 x 0.
NoWindow == [w |-> U32(0), h |-> U32(0), num |-> 1, den |-> 1]

\* Native pixel formats a windowing system hands out.
PixelFormats ==
    {[color_bits |-> c[1], alpha_bits |-> c[2], srgb |-> s,
      depth_bits |-> d[1], stencil_bits |-> d[2],
      multisampling |-> m, double_buffer |-> b] :
        c \in {<<24, 8>>, <<24, 0>>, <<16, 8>>},
        s \in BOOLEAN,
        d \in {<<24, 8>>, <<0, 0>>},
        m \in {None, Some(4)},
        b \in BOOLEAN}

HeadlessPixelFormat ==
    [color_bits |-> 24, alpha_bits |-> 8, srgb |-> TRUE,
     depth_bits |-> 24, stencil_bits |-> 8,
     multisampling |-> None, double_buffer |-> TRUE]

\* glutin's ContextBuilder before config_context: its default requirements.
DefaultBuilders ==
    {[depth_bits |-> Some(24), stencil_bits |-> Some(8),
      color_bits |-> Some(24), alpha_bits |-> Some(8),
      srgb |-> s, multisampling |-> m, double_buffer |-> None] :
        s \in BOOLEAN, m \in {None, Some(4)}}

\* timeout_ns is a u64 that is never read; small values stand for it.
Timeouts == {0, 1000000}

Semaphores == {None, Some("semaphore")}

Fences == {None, Some("fence")}

NoCall == [op |-> "none", args |-> <<>>, lost |-> FALSE, out |-> [kind |-> "none"]]

\* The swapchain a device builds on a surface: the extent of the window then.
NewSwapchain(win) ==
    Some([extent |-> Extent2D(get_window_extent(win)), fbos |-> <<0>>])

\* What the call `op` with `args` yielded, as the state records it.
Called(op, args, out) == [op |-> op, args |-> args, lost |-> lost, out |-> out]

----------------------------------------------------------------------------
(* Initial states *)

\* A program that runs on a context already built.
Init ==
    /\ pc = "live"
    /\ builder \in DefaultBuilders
    /\ builder.srgb /\ builder.multisampling = None
    /\ cfg = None
    /\ instance \in {"Surface", "Headless"}
    /\ IF instance = "Surface"
       THEN /\ pixel_format \in PixelFormats
            /\ window = InitialWindow
            /\ swapchain = NewSwapchain(InitialWindow)
       ELSE /\ pixel_format = HeadlessPixelFormat
            /\ window = NoWindow
            /\ swapchain = None
    /\ lost = FALSE
    /\ proc_ok \in BOOLEAN
    /\ null_call_panics \in BOOLEAN
    /\ overflow_checks \in BOOLEAN
    /\ signaled = {}
    /\ ret = NoCall
    /\ ncalls = 0

\* A program that starts from a context builder.
InitConfig ==
    /\ pc = "builder"
    /\ builder \in DefaultBuilders
    /\ cfg = None
    /\ instance = "Surface"
    /\ pixel_format = None
    /\ window = None
    /\ swapchain = None
    /\ lost = FALSE
    /\ proc_ok = TRUE
    /\ null_call_panics \in BOOLEAN
    /\ overflow_checks \in BOOLEAN
    /\ signaled = {}
    /\ ret = NoCall
    /\ ncalls = 0

----------------------------------------------------------------------------
(* The windowing system and the driver *)

\* What build_windowed may hand back for the builder's requirements: the pixel
\* format asked for, or the nearest one the display has.
Offers(b) ==
    LET asked(d) == [color_bits    |-> b.color_bits[1],
                     alpha_bits    |-> b.alpha_bits[1],
                     srgb          |-> b.srgb,
                     depth_bits    |-> b.depth_bits[1],
                     stencil_bits  |-> b.stencil_bits[1],
                     multisampling |-> b.multisampling,
                     double_buffer |-> d]
    IN  {asked(d) : d \in BOOLEAN}
        \cup {[asked(TRUE) EXCEPT !.alpha_bits = 0],
              [asked(TRUE) EXCEPT !.srgb = ~b.srgb]}

\* build_windowed and Surface::from_window.
BuildWindowed ==
    /\ pc \in {"builder", "configured"}
    /\ \E pf \in Offers(builder) : pixel_format' = pf
    /\ window' = InitialWindow
    /\ swapchain' = NewSwapchain(InitialWindow)
    /\ pc' = "live"
    /\ UNCHANGED <<builder, cfg, instance, lost, proc_ok, null_call_panics, overflow_checks,
                   signaled, ret, ncalls>>

\* The user resizes the window or moves it to a display of another scale.
Resize ==
    /\ pc = "live" /\ instance = "Surface"
    /\ \E win \in Windows : win # window /\ window' = win
    /\ UNCHANGED <<pc, builder, cfg, instance, pixel_format, lost, proc_ok, null_call_panics,
                   overflow_checks, swapchain, signaled, ret, ncalls>>

\* The driver reports the context lost.
MarkLost ==
    /\ pc = "live" /\ ~lost
    /\ lost' = TRUE
    /\ UNCHANGED <<pc, builder, cfg, instance, pixel_format, window, proc_ok, null_call_panics,
                   overflow_checks, swapchain, signaled, ret, ncalls>>

----------------------------------------------------------------------------
(* The calls *)

Returns(op, args, out) ==
    /\ ncalls < MaxCalls
    /\ ret' = Called(op, args, out)
    /\ ncalls' = ncalls + 1

ConfigContext ==
    /\ pc = "builder"
    /\ \E color_format \in ColorFormats :
       \E ds_format \in {None} \cup {Some(f) : f \in DepthStencilFormats} :
          /\ builder' = config_context(builder, color_format, ds_format)
          /\ cfg' = Some([color_format |-> color_format, ds_format |-> ds_format])
    /\ pc' = "configured"
    /\ UNCHANGED <<instance, pixel_format, window, lost, proc_ok, null_call_panics, overflow_checks,
                   swapchain, signaled, ret, ncalls>>

AcquireImage ==
    /\ pc = "live" /\ instance = "Surface" /\ swapchain # None
    /\ \E timeout_ns \in Timeouts, semaphore \in Semaphores, fence \in Fences :
          Returns("acquire_image", <<timeout_ns, semaphore, fence>>,
                  acquire_image(Swapchain, timeout_ns, semaphore, fence))
    /\ UNCHANGED <<pc, builder, cfg, instance, pixel_format, window, lost, proc_ok, null_call_panics,
                   overflow_checks, swapchain, signaled>>

Kind ==
    /\ pc = "live" /\ instance = "Surface"
    /\ Returns("kind", <<>>, kind(Surface))
    /\ UNCHANGED <<pc, builder, cfg, instance, pixel_format, window, lost, proc_ok, null_call_panics,
                   overflow_checks, swapchain, signaled>>

Compatibility ==
    /\ pc = "live" /\ instance = "Surface"
    /\ Returns("compatibility", <<>>, compatibility(Surface))
    /\ UNCHANGED <<pc, builder, cfg, instance, pixel_format, window, lost, proc_ok, null_call_panics,
                   overflow_checks, swapchain, signaled>>

SupportsQueueFamily ==
    /\ pc = "live" /\ instance = "Surface"
    /\ Returns("supports_queue_family", <<>>, supports_queue_family(Surface))
    /\ UNCHANGED <<pc, builder, cfg, instance, pixel_format, window, lost, proc_ok, null_call_panics,
                   overflow_checks, swapchain, signaled>>

SurfaceEnumerateAdapters ==
    /\ pc = "live" /\ instance = "Surface"
    /\ Returns("Surface::enumerate_adapters", <<>>, Surface_enumerate_adapters(Surface))
    /\ UNCHANGED <<pc, builder, cfg, instance, pixel_format, window, lost, proc_ok, null_call_panics,
                   overflow_checks, swapchain, signaled>>

HeadlessEnumerateAdapters ==
    /\ pc = "live" /\ instance = "Headless"
    /\ Returns("Headless::enumerate_adapters", <<>>, Headless_enumerate_adapters(Headless))
    /\ UNCHANGED <<pc, builder, cfg, instance, pixel_format, window, lost, proc_ok, null_call_panics,
                   overflow_checks, swapchain, signaled>>

----------------------------------------------------------------------------
(* Specifications *)

Next ==
    \/ Resize
    \/ MarkLost
    \/ AcquireImage
    \/ Kind
    \/ Compatibility
    \/ SupportsQueueFamily
    \/ SurfaceEnumerateAdapters
    \/ HeadlessEnumerateAdapters

Spec == Init /\ [][Next]_vars

NextConfig ==
    \/ ConfigContext
    \/ BuildWindowed
    \/ Compatibility

SpecConfig == InitConfig /\ [][NextConfig]_vars

----------------------------------------------------------------------------
(* Properties *)

EnumerateOps == {"Surface::enumerate_adapters", "Headless::enumerate_adapters"}

\* The call just made was `op`.
JustCalled(op) == ncalls' = ncalls + 1 /\ ret'.op = op

Compatible == ret.op = "compatibility" /\ ret.out.kind = "ok"

\* C1: the format list compatibility returns (swapchain_formats) is a table over
\* (color_bits, alpha_bits, srgb) alone: (24, 8, true) gives [Rgba8Srgb,
\* Bgra8Srgb], (24, 8, false) gives [Rgba8Unorm, Bgra8Unorm], both in that order,
\* and every other tuple gives the empty list, whatever the depth, stencil,
\* multisampling and double_buffer fields hold.
C1_FormatTable ==
    Compatible =>
        ret.out.val.formats =
            Some(IF pixel_format.color_bits = 24 /\ pixel_format.alpha_bits = 8
                 THEN IF pixel_format.srgb
                      THEN <<"Rgba8Srgb", "Bgra8Srgb">>
                      ELSE <<"Rgba8Unorm", "Bgra8Unorm">>
                 ELSE <<>>)

C1_Witness ==
    /\ Compatible
    /\ ret.out.val.formats = Some(<<"Rgba8Unorm", "Bgra8Unorm">>)
    /\ pixel_format.depth_bits = 0
    /\ pixel_format.multisampling = Some(4)
    /\ ~pixel_format.double_buffer

\* C2, as claimed: on a context marked lost, compatibility, kind,
\* enumerate_adapters and acquire_image each fail with ContextLost instead of
\* returning a value.
C2_LostFails ==
    (ret.lost /\ ret.op \in {"compatibility", "kind", "acquire_image"} \cup EnumerateOps)
        => ret.out = Failed("ContextLost")

\* C3, as claimed: when the context's resolver does not resolve the primary
\* entry point, enumerate_adapters fails with SymbolResolutionFailed: it returns
\* no list, empty or not, and no adapter over the null resolver.
C3_ResolutionFailure ==
    (ret.op \in EnumerateOps /\ ~proc_ok) => ret.out = Failed("SymbolResolutionFailed")

\* C4, as claimed: every compatibility() call returns, as current_extent and as
\* the lower end of the extent range, the physical extent the window has at that
\* call.
C4_FreshExtent ==
    [][JustCalled("compatibility") =>
         /\ ret'.out.kind = "ok"
         /\ ret'.out.val.caps.current_extent = Some(Extent2D(get_window_extent(window)))
         /\ ret'.out.val.caps.extents.start = Extent2D(get_window_extent(window))]_vars

\* C5, as claimed: compatibility() returns current_extent (w, h) and the extent
\* range from (w, h) to (w + 1, h + 1), for every w and h the size type holds.
C5_ExtentRange ==
    ret.op = "compatibility" =>
        /\ ret.out.kind = "ok"
        /\ LET caps == ret.out.val.caps
               cur  == caps.current_extent[1]
           IN  /\ caps.extents.start = cur
               /\ caps.extents.end.width \o <<0>> = AddSmall(cur.width, 1)
               /\ caps.extents.end.height \o <<0>> = AddSmall(cur.height, 1)

\* C6, as claimed: compatibility() reports image_count 2..3 on a double-buffered
\* pixel format and 1..2 on a single-buffered one, for every window extent.
C6_ImageCount ==
    ret.op = "compatibility" =>
        /\ ret.out.kind = "ok"
        /\ ret.out.val.caps.image_count =
              IF pixel_format.double_buffer
              THEN [start |-> 2, end |-> 3]
              ELSE [start |-> 1, end |-> 2]

\* C7: every acquire_image call returns Ok((0, None)), whatever the timeout, the
\* semaphore and the fence and however many calls came before, and it leaves the
\* swapchain as it was and signals nothing.
C7_AcquireStub ==
    [][JustCalled("acquire_image") =>
         /\ ret'.out = Ok([index |-> 0, suboptimal |-> None])
         /\ swapchain' = swapchain
         /\ pixel_format' = pixel_format /\ window' = window
         /\ signaled' = signaled]_vars

C7_Witness ==
    /\ ret.op = "acquire_image"
    /\ ret.args = <<0, Some("semaphore"), Some("fence")>>
    /\ ret.out = Ok([index |-> 0, suboptimal |-> None])
    /\ ncalls = MaxCalls
    /\ window # InitialWindow

\* C8: on a valid context (not lost, its resolver working) enumerate_adapters
\* returns a list of exactly one adapter, on a Surface and on a Headless, on
\* every call.
C8_OneAdapter ==
    (ret.op \in EnumerateOps /\ ~ret.lost /\ proc_ok) =>
        /\ ret.out.kind = "ok"
        /\ Len(ret.out.val) = 1

C8_Witness ==
    /\ ret.op = "Headless::enumerate_adapters"
    /\ proc_ok /\ ~ret.lost
    /\ ret.out.kind = "ok"
    /\ Len(ret.out.val) = 1
    /\ ncalls = MaxCalls

----------------------------------------------------------------------------
(* Properties of a context built from config_context *)

\* The windowing system gave exactly the pixel format the builder asked for.
Honoured ==
    /\ pc = "live"
    /\ Some(pixel_format.color_bits) = builder.color_bits
    /\ Some(pixel_format.alpha_bits) = builder.alpha_bits
    /\ Some(pixel_format.depth_bits) = builder.depth_bits
    /\ Some(pixel_format.stencil_bits) = builder.stencil_bits
    /\ pixel_format.srgb = builder.srgb
    /\ pixel_format.multisampling = builder.multisampling

Reported == Range(ret.out.val.formats[1])

\* The formats swapchain_formats can name.
ListedFormats == {"Rgba8Srgb", "Bgra8Srgb", "Rgba8Unorm", "Bgra8Unorm"}

\* C9, as claimed: a context configured for the color format F and built as
\* asked reports F among its swapchain formats.
C9_RoundTrip ==
    (cfg # None /\ Honoured /\ Compatible) => cfg[1].color_format \in Reported

\* C9, amended: a context configured for F and built as asked has F's color
\* bits, alpha bits and sRGB flag, and depth and stencil bits 0 when no
\* depth/stencil format was given; it reports F, and only formats of F's channel
\* type, when F is one of Rgba8Srgb, Bgra8Srgb, Rgba8Unorm and Bgra8Unorm, and
\* does not report F when F is any other format.
C9_RoundTripListed ==
    (cfg # None /\ Honoured /\ Compatible) =>
        LET F    == cfg[1].color_format
            bits == describe_bits(base_format(F)[1])
        IN  /\ pixel_format.color_bits = bits.color
            /\ pixel_format.alpha_bits = bits.alpha
            /\ pixel_format.srgb = (base_format(F)[2] = "Srgb")
            /\ cfg[1].ds_format = None =>
                   pixel_format.depth_bits = 0 /\ pixel_format.stencil_bits = 0
            /\ F \in ListedFormats =>
                   /\ F \in Reported
                   /\ \A g \in Reported : base_format(g)[2] = base_format(F)[2]
            /\ F \notin ListedFormats => F \notin Reported

C9_Witness ==
    /\ cfg = Some([color_format |-> "Bgra8Unorm", ds_format |-> None])
    /\ Honoured
    /\ Compatible
    /\ "Bgra8Unorm" \in Reported
    /\ pixel_format.depth_bits = 0

\* C10: the request config_context produces has its sRGB flag set exactly when
\* the color format's channel type is Srgb, the color and alpha bits of the color
\* format's base format, and the depth and stencil bits of the depth/stencil
\* format's base format, or 0 and 0 when there is none.
C10_Request ==
    cfg # None =>
        LET color_base == base_format(cfg[1].color_format)
            ds         == cfg[1].ds_format
        IN  /\ builder.srgb = (color_base[2] = "Srgb")
            /\ builder.color_bits = Some(describe_bits(color_base[1]).color)
            /\ builder.alpha_bits = Some(describe_bits(color_base[1]).alpha)
            /\ ds = None =>
                   builder.depth_bits = Some(0) /\ builder.stencil_bits = Some(0)
            /\ ds # None =>
                   /\ builder.depth_bits = Some(describe_bits(base_format(ds[1])[1]).depth)
                   /\ builder.stencil_bits = Some(describe_bits(base_format(ds[1])[1]).stencil)

C10_Witness ==
    /\ pc = "configured"
    /\ cfg = Some([color_format |-> "R5g6b5Unorm", ds_format |-> None])
    /\ builder.color_bits = Some(16)
    /\ builder.depth_bits = Some(0)
    /\ ~builder.srgb

----------------------------------------------------------------------------
(* What compatibility() does apart from the overflow of `ex.width + 1` *)

\* compatibility() panics only in a build that checks overflow, on a window whose
\* physical width or height is the largest the size type holds.
PanicOnlyOnOverflow ==
    [][(JustCalled("compatibility") /\ ret'.out.kind = "panic") =>
          /\ overflow_checks
          /\ \/ get_window_extent(window).width = SizeMax
             \/ get_window_extent(window).height = SizeMax]_vars

\* Whenever compatibility() returns, its current_extent and the lower end of its
\* extent range are the window's physical extent at that call.
FreshExtentWhenReturned ==
    [][(JustCalled("compatibility") /\ ret'.out.kind = "ok") =>
          /\ ret'.out.val.caps.current_extent = Some(Extent2D(get_window_extent(window)))
          /\ ret'.out.val.caps.extents.start = Extent2D(get_window_extent(window))]_vars

\* Whenever compatibility() returns, its image_count follows double_buffer.
ImageCountWhenReturned ==
    Compatible =>
        ret.out.val.caps.image_count =
            IF pixel_format.double_buffer
            THEN [start |-> 2, end |-> 3]
            ELSE [start |-> 1, end |-> 2]

\* Below the largest width and height, the extent range ends one past the extent.
ExtentRangeBelowMax ==
    Compatible =>
        LET caps == ret.out.val.caps
            cur  == caps.current_extent[1]
        IN  /\ caps.extents.start = cur
            /\ cur.width # SizeMax =>
                   caps.extents.end.width \o <<0>> = AddSmall(cur.width, 1)
            /\ cur.height # SizeMax =>
                   caps.extents.end.height \o <<0>> = AddSmall(cur.height, 1)

----------------------------------------------------------------------------
(* What enumerate_adapters does with a resolver that gives null *)

\* enumerate_adapters returns one adapter holding what the resolver gave, null
\* included, or panics in new_adapter when the resolver gave null.
EnumerateOutcome ==
    ret.op \in EnumerateOps =>
        \/ /\ ret.out.kind = "ok"
           /\ Len(ret.out.val) = 1
           /\ ret.out.val[1].gl.entry = (IF proc_ok THEN "address" ELSE "null")
        \/ /\ ret.out.kind = "panic"
           /\ ~proc_ok /\ null_call_panics

====
